---- MODULE Spec2Model ----
(***************************************************************************)
(* A model of the filesystem-backed cache of src/server/cache.rs.          *)
(*                                                                         *)
(* Text (cache keys, the content of a key record, a line of the index      *)
(* file) is a sequence of one-character strings, so that trim() and        *)
(* split_once() are computed character by character as the code does.      *)
(* A payload is an atomic token; the content "" of a data record is the    *)
(* record created or truncated by open() and not written yet.              *)
(*                                                                         *)
(* Every operation of Cache is a sequence of filesystem calls; each call    *)
(* is one action, so that callers working on the same folder interleave    *)
(* between any two calls.  Spec runs a single caller, SpecConc several,     *)
(* SpecEnv a single caller whose calls may fail.  SpecIndex is the index   *)
(* of src/server/cache.rs, SpecPool the pool of src/server/threadpool.rs.  *)
(***************************************************************************)
EXTENDS Integers, Sequences, FiniteSets, TLC

\* ------------------------------------------------------------------ bounds
NumBuckets == 2     \* distinct values the key hash takes
NumProcs == 2       \* callers of SpecConc
MaxOps == 3         \* operations a run of Spec starts
MaxConcOps == 3     \* operations a run of SpecConc starts
MaxKeyText == 2     \* characters before the separator in an index line
MaxLines == 2       \* lines of the index file as first found
MaxEnvOps == 2      \* operations a run of SpecEnv starts
MaxFaults == 1      \* filesystem calls that fail within one operation
NumWorkers == 2     \* num_workers of ThreadPool::new
MaxJobs == 3        \* jobs handed to ThreadPool::execute

BucketIds == 1..NumBuckets
Procs == 1..NumProcs
Workers == 1..NumWorkers
Jobs == 1..MaxJobs

\* The keys callers pass: two plain keys and one with leading whitespace.
Keys == { <<"a">>, <<"b">>, <<" ", "a">> }
\* The keys the callers of SpecConc pass.
ConcKeys == { <<"a">>, <<"b">> }
\* The payloads callers pass and the fetch collaborator returns.
Payloads == { "d1", "d2" }

VARIABLES
    hashOf,     \* Cache::get_hash as a function of the key
    disk,       \* the tree under Cache.folder
    proc,       \* per caller: position in get / put_in_cache and its locals
    last,       \* the operation that completed in the last step, if any
    prev,       \* the latest completed operation
    supplied,   \* the pairs <<k, d>> of a payload d handed to put(k, .) or
                \* answered by a fetch of k, so far
    ops,        \* operations started so far
    idxFile,    \* the index file: absent, or its lines
    entries,    \* CacheIndex.entries of the index object in use
    fresh,      \* CacheIndex.entries of an index loaded anew from the file
    idxLast,    \* the latest CacheIndex operation and its outcome
    pool        \* the ThreadPool: its channel, the receiver lock, its workers

idxVars == <<idxFile, entries, fresh, idxLast>>
vars == <<hashOf, disk, proc, last, prev, supplied, ops, idxVars, pool>>

\* ------------------------------------------------------------ text helpers
IsWhitespace(c) == c \in {" ", "\t"}

RECURSIVE TrimStart(_)
TrimStart(s) ==
    IF s # <<>> /\ IsWhitespace(Head(s)) THEN TrimStart(Tail(s)) ELSE s

RECURSIVE TrimEnd(_)
TrimEnd(s) ==
    IF s # <<>> /\ IsWhitespace(s[Len(s)])
    THEN TrimEnd(SubSeq(s, 1, Len(s) - 1))
    ELSE s

\* str::trim
Trim(s) == TrimEnd(TrimStart(s))

\* --------------------------------------------------------------- the disk
\* A file is absent (NoFile) or holds a content (File(c)).
NoFile == <<>>
File(c) == <<c>>
Content(f) == f[1]

NoSlot == -1
EmptyChain == <<>>
EmptySlot == [key |-> NoFile, data |-> NoFile]
\* The cache folder before anything is stored.  other: the bucket holds a
\* directory that some other program put there, whose name is not a number.
EmptyDisk ==
    [b \in BucketIds |->
        [dir |-> FALSE, slots |-> EmptyChain, other |-> FALSE]]

\* get_sub_folders(self.folder): the bucket directories, named by the
\* decimal form of the hash (an injective naming, kept as the number).
get_sub_folders(d) == { b \in BucketIds : d[b].dir }

\* get_sub_folders(hash_dir) parsed with usize::from_str: the slot numbers.
ChainOf(d, b) == DOMAIN d[b].slots

\* One iteration of the loop of check_subdirs_for_url: the key record of
\* slot fold_n opens and its trimmed content equals url.
KeyMatches(d, b, fold_n, url) ==
    /\ fold_n \in ChainOf(d, b)
    /\ d[b].slots[fold_n].key # NoFile
    /\ Trim(Content(d[b].slots[fold_n].key)) = url

Max(S) == CHOOSE x \in S : \A y \in S : y <= x

\* A choice of slot that reuses slot 0 for every key not found.
TargetSlotFirst(found, chain) ==
    IF found # NoSlot THEN found ELSE 0

\* The slot put_in_cache writes to: found_url.or(max + 1).or(0).
TargetSlot(found, chain) ==
    IF found # NoSlot THEN found
    ELSE IF chain # {} THEN Max(chain) + 1
    ELSE 0

\* The lookup of k hits: a slot of its bucket has a key record that matches
\* k and a data record that opens.
Present(d, h, k) ==
    \E s \in ChainOf(d, h[k]) :
        KeyMatches(d, h[k], s, k) /\ d[h[k]].slots[s].data # NoFile

PresentKeys(d, h) == { k \in Keys : Present(d, h, k) }

\* The directories of the tree: the buckets and their slots.
Tree(d) == [b \in BucketIds |-> [dir |-> d[b].dir, chain |-> ChainOf(d, b)]]

\* ----------------------------------------------------------- the callers
Idle ==
    [pc |-> "idle", op |-> "none", key |-> <<>>, data |-> "",
     folders |-> {}, chain |-> {}, scan |-> {}, n |-> NoSlot,
     fetches |-> 0, wasEmpty |-> FALSE, corrupt |-> FALSE, valid |-> {},
     wrote |-> FALSE, noMatch |-> FALSE, faults |-> 0,
     storageErr |-> FALSE, foreign |-> FALSE,
     held |-> {}, taken |-> {}, chain0 |-> {},
     present |-> {}, tree0 |-> Tree(EmptyDisk)]

NoOp == [op |-> "none"]

\* The operation stored a payload: a put, or a get that fetched and stored.
IsStore(o) == o.op = "put" \/ (o.op = "get" /\ o.res \in Payloads /\ o.fetches = 1)

\* What prev keeps of a completed operation.  over: it is a put that follows
\* a completed put of the same key.  before: the store that completed just
\* before it, when this is a store of another key of the same bucket.
Summary(r, res, over, before) ==
    [op |-> r.op, key |-> r.key, data |-> r.data, res |-> res, slot |-> r.n,
     fetches |-> r.fetches, over |-> over, wasEmpty |-> r.wasEmpty,
     before |-> before]

\* The operation of caller p returns res (or panics, res = "panic").
Complete(p, r, res) ==
    LET over == r.op = "put" /\ prev.op = "put" /\ prev.key = r.key
        me == [op |-> r.op, res |-> res, fetches |-> r.fetches]
        before == IF /\ IsStore(me) /\ prev.op # "none" /\ IsStore(prev)
                     /\ prev.key # r.key /\ hashOf[prev.key] = hashOf[r.key]
                  THEN [op |-> "store", key |-> prev.key, data |-> prev.data,
                        slot |-> prev.slot]
                  ELSE NoOp
    IN  /\ last' = [op |-> r.op, key |-> r.key, data |-> r.data,
                    res |-> res, slot |-> r.n, fetches |-> r.fetches,
                    wasEmpty |-> r.wasEmpty, corrupt |-> r.corrupt,
                    valid |-> r.valid, wrote |-> r.wrote,
                    noMatch |-> r.noMatch, faults |-> r.faults,
                    storageErr |-> r.storageErr, foreign |-> r.foreign,
                    held |-> r.held, taken |-> r.taken, chain0 |-> r.chain0,
                    present |-> r.present, tree0 |-> r.tree0,
                    prev |-> prev]
        /\ prev' = Summary(r, res, over, before)
        /\ proc' = [proc EXCEPT ![p] = Idle]
        /\ UNCHANGED <<idxVars, pool>>

\* Caller p moves on within its operation, or enters one.
Step(p, r) ==
    /\ proc' = [proc EXCEPT ![p] = r]
    /\ last' = NoOp
    /\ prev' = prev
    /\ UNCHANGED <<idxVars, pool>>

\* ThreadPool::new(num_workers) has returned: the channel is empty, nobody
\* holds the lock of the receiver, every worker thread is about to lock it.
\* queue: the jobs in the channel; sent: how many jobs execute was given
\* (job j is the j-th); lock: the worker holding the Mutex, or 0; pc, job:
\* where each worker is and the job it has; taken, runs: how often each job
\* was received and was called.
NewPool ==
    [queue |-> <<>>, sent |-> 0, lock |-> 0,
     pc |-> [w \in Workers |-> "lock"], job |-> [w \in Workers |-> 0],
     taken |-> [j \in Jobs |-> 0], runs |-> [j \in Jobs |-> 0]]

\* No index operation is under way (the cache operations use none).
IndexIdle ==
    /\ idxFile = NoFile
    /\ entries = <<>>
    /\ fresh = <<>>
    /\ idxLast = [op |-> "none"]

\* get_hash is some function of the key.  The names of the buckets are
\* interchangeable, so the bucket of the first key is taken to be 1.
Hashes == { h \in [Keys -> BucketIds] : h[<<"a">>] = 1 }

Init ==
    /\ IndexIdle
    /\ pool = NewPool
    /\ hashOf \in Hashes
    /\ disk = EmptyDisk
    /\ proc = [p \in Procs |-> Idle]
    /\ last = NoOp
    /\ prev = NoOp
    /\ supplied = {}
    /\ ops = 0

\* ------------------------------------------------------------ Cache::get
\* A caller enters get(request).  wasEmpty, corrupt, valid, noMatch,
\* present and tree0 record what the store held at the call, for the
\* properties below.
StartGet(p, k) ==
    /\ proc[p].pc = "idle"
    /\ Step(p, [Idle EXCEPT
                  !.pc = "get_list_root", !.op = "get", !.key = k,
                  !.wasEmpty = (get_sub_folders(disk) = {}),
                  !.corrupt = (\E s \in ChainOf(disk, hashOf[k]) :
                                  disk[hashOf[k]].slots[s].key = NoFile),
                  !.valid = { s \in ChainOf(disk, hashOf[k]) :
                                  /\ disk[hashOf[k]].slots[s].key = File(k)
                                  /\ disk[hashOf[k]].slots[s].data # NoFile },
                  !.noMatch = /\ hashOf[k] \in get_sub_folders(disk)
                              /\ \A s \in ChainOf(disk, hashOf[k]) :
                                    disk[hashOf[k]].slots[s].key # File(k),
                  !.foreign = disk[hashOf[k]].other,
                  !.present = PresentKeys(disk, hashOf),
                  !.tree0 = Tree(disk)])
    /\ ops' = ops + 1
    /\ UNCHANGED <<hashOf, disk, supplied>>

\* get_from_cache: list the root; without the bucket directory the lookup
\* is Err and get goes on to the fetch.
GetListRoot(p) ==
    LET r == proc[p] IN
    /\ r.pc = "get_list_root"
    /\ IF hashOf[r.key] \in get_sub_folders(disk)
       THEN Step(p, [r EXCEPT !.pc = "get_list_chain"])
       ELSE Step(p, [r EXCEPT !.pc = "fetch"])
    /\ UNCHANGED <<hashOf, disk, supplied, ops>>

\* check_subdirs_for_url called by get_from_cache: list the bucket and
\* parse every name with usize::from_str(..).unwrap(), which panics on a
\* name that is not a number.
GetListChain(p) ==
    LET r == proc[p] IN
    /\ r.pc = "get_list_chain"
    /\ IF disk[hashOf[r.key]].other
       THEN Complete(p, r, "panic")
       ELSE Step(p, [r EXCEPT !.pc = "get_scan",
                              !.scan = ChainOf(disk, hashOf[r.key])])
    /\ UNCHANGED <<hashOf, disk, supplied, ops>>

\* The loop of check_subdirs_for_url, one slot per step, in the arbitrary
\* order of the HashSet.  A slot whose key record does not open is skipped;
\* the first match ends the loop; no match makes get_from_cache panic.
GetScan(p) ==
    LET r == proc[p] IN
    /\ r.pc = "get_scan"
    /\ \/ /\ r.scan = {}
          /\ Complete(p, r, "panic")
       \/ \E fold_n \in r.scan :
            IF KeyMatches(disk, hashOf[r.key], fold_n, r.key)
            THEN Step(p, [r EXCEPT !.pc = "get_read_data", !.n = fold_n,
                                   !.scan = {}])
            ELSE Step(p, [r EXCEPT !.scan = r.scan \ {fold_n}])
    /\ UNCHANGED <<hashOf, disk, supplied, ops>>

\* get_from_cache opens and reads the data record of the matched slot.  A
\* record that does not open is Err, and get goes on to the fetch.
GetReadData(p) ==
    LET r == proc[p]
        f == disk[hashOf[r.key]].slots[r.n].data
    IN
    /\ r.pc = "get_read_data"
    /\ IF f = NoFile
       THEN Step(p, [r EXCEPT !.pc = "fetch", !.n = NoSlot,
                              !.storageErr = TRUE])
       ELSE Complete(p, r, Content(f))
    /\ UNCHANGED <<hashOf, disk, supplied, ops>>

\* A get that tries the fetch a second time when it failed.
FetchRetry(p) ==
    LET r == proc[p] IN
    /\ r.pc = "fetch"
    /\ \/ /\ IF r.fetches = 0
             THEN Step(p, [r EXCEPT !.fetches = 1])
             ELSE Complete(p, [r EXCEPT !.fetches = r.fetches + 1], "err")
          /\ supplied' = supplied
       \/ \E d \in Payloads :
            /\ Step(p, [r EXCEPT !.pc = "put_list_root", !.data = d,
                                 !.fetches = r.fetches + 1])
            /\ supplied' = supplied \cup {<<r.key, d>>}
    /\ UNCHANGED <<hashOf, disk, ops>>

\* ureq::get(url).call(): the fetch collaborator fails, and get returns the
\* error, or answers a payload, which get hands to put_in_cache.
Fetch(p) ==
    LET r == proc[p] IN
    /\ r.pc = "fetch"
    /\ \/ /\ Complete(p, [r EXCEPT !.fetches = r.fetches + 1], "err")
          /\ supplied' = supplied
       \/ \E d \in Payloads :
            /\ Step(p, [r EXCEPT !.pc = "put_list_root", !.data = d,
                                 !.fetches = r.fetches + 1])
            /\ supplied' = supplied \cup {<<r.key, d>>}
    /\ UNCHANGED <<hashOf, disk, ops>>

\* --------------------------------------------------- Cache::put_in_cache
\* A caller enters put_in_cache(url, meta, data) with meta = url.  chain0,
\* held and taken record the slots of the bucket at the call, those whose
\* key record holds k and those whose key record holds another key.
StartPut(p, k, d) ==
    /\ proc[p].pc = "idle"
    /\ Step(p, [Idle EXCEPT
                  !.pc = "put_list_root", !.op = "put", !.key = k, !.data = d,
                  !.foreign = disk[hashOf[k]].other,
                  !.present = PresentKeys(disk, hashOf),
                  !.tree0 = Tree(disk),
                  !.chain0 = ChainOf(disk, hashOf[k]),
                  !.held = { s \in ChainOf(disk, hashOf[k]) :
                               disk[hashOf[k]].slots[s].key = File(k) },
                  !.taken = { s \in ChainOf(disk, hashOf[k]) :
                               /\ disk[hashOf[k]].slots[s].key # NoFile
                               /\ disk[hashOf[k]].slots[s].key # File(k) }])
    /\ supplied' = supplied \cup {<<k, d>>}
    /\ ops' = ops + 1
    /\ UNCHANGED <<hashOf, disk>>

\* hash_folders = get_sub_folders(self.folder)
PutListRoot(p) ==
    LET r == proc[p] IN
    /\ r.pc = "put_list_root"
    /\ Step(p, [r EXCEPT !.pc = "put_mkdir_bucket",
                         !.folders = get_sub_folders(disk)])
    /\ UNCHANGED <<hashOf, disk, supplied, ops>>

\* create_dir(&hash_dir) when the listing lacks the bucket; its error (the
\* directory exists by now) is dropped.
PutMkdirBucket(p) ==
    LET r == proc[p]
        b == hashOf[r.key]
    IN
    /\ r.pc = "put_mkdir_bucket"
    /\ disk' = IF b \notin r.folders /\ ~disk[b].dir
               THEN [disk EXCEPT ![b].dir = TRUE]
               ELSE disk
    /\ Step(p, [r EXCEPT !.pc = "put_list_chain", !.folders = {},
                         !.wrote = (disk' # disk)])
    /\ UNCHANGED <<hashOf, supplied, ops>>

\* chain = get_sub_folders(hash_dir)?, every name parsed with
\* usize::from_str(..).unwrap(): Err when the bucket cannot be listed, a
\* panic on a name that is not a number.
PutListChain(p) ==
    LET r == proc[p] IN
    /\ r.pc = "put_list_chain"
    /\ IF ~disk[hashOf[r.key]].dir THEN Complete(p, r, "ioerr")
       ELSE IF disk[hashOf[r.key]].other THEN Complete(p, r, "panic")
       ELSE Step(p, [r EXCEPT !.pc = "put_list_scan",
                              !.chain = ChainOf(disk, hashOf[r.key])])
    /\ UNCHANGED <<hashOf, disk, supplied, ops>>

\* check_subdirs_for_url called by put_in_cache: list the bucket again.
PutListScan(p) ==
    LET r == proc[p] IN
    /\ r.pc = "put_list_scan"
    /\ IF disk[hashOf[r.key]].other
       THEN Complete(p, r, "panic")
       ELSE Step(p, [r EXCEPT !.pc = "put_scan",
                              !.scan = ChainOf(disk, hashOf[r.key])])
    /\ UNCHANGED <<hashOf, disk, supplied, ops>>

\* The loop of check_subdirs_for_url, then n = the slot to write to.
PutScan(p) ==
    LET r == proc[p] IN
    /\ r.pc = "put_scan"
    /\ \/ /\ r.scan = {}
          /\ Step(p, [r EXCEPT !.pc = "put_mkdir_slot", !.chain = {},
                               !.n = TargetSlot(NoSlot, r.chain)])
       \/ \E fold_n \in r.scan :
            IF KeyMatches(disk, hashOf[r.key], fold_n, r.key)
            THEN Step(p, [r EXCEPT !.pc = "put_mkdir_slot", !.chain = {},
                                   !.scan = {},
                                   !.n = TargetSlot(fold_n, r.chain)])
            ELSE Step(p, [r EXCEPT !.scan = r.scan \ {fold_n}])
    /\ UNCHANGED <<hashOf, disk, supplied, ops>>

\* create_dir of the slot directory; its error (it exists) is dropped.
PutMkdirSlot(p) ==
    LET r == proc[p]
        b == hashOf[r.key]
    IN
    /\ r.pc = "put_mkdir_slot"
    /\ disk' = IF r.n \in ChainOf(disk, b)
               THEN disk
               ELSE [disk EXCEPT ![b].slots = (r.n :> EmptySlot) @@ @]
    /\ Step(p, [r EXCEPT !.pc = "put_open_data",
                         !.wrote = (r.wrote \/ disk' # disk)])
    /\ UNCHANGED <<hashOf, supplied, ops>>

\* open(data) with create and truncate: the record exists and is empty.
\* Without the slot directory the open fails, the closure with the write is
\* not run and the error is dropped.
PutOpenData(p) ==
    LET r == proc[p] IN
    /\ r.pc = "put_open_data"
    /\ IF r.n \in ChainOf(disk, hashOf[r.key])
       THEN /\ disk' = [disk EXCEPT
                          ![hashOf[r.key]].slots[r.n].data = File("")]
            /\ Step(p, [r EXCEPT !.pc = "put_write_data", !.wrote = TRUE])
       ELSE /\ disk' = disk
            /\ Step(p, [r EXCEPT !.pc = "put_open_key"])
    /\ UNCHANGED <<hashOf, supplied, ops>>

\* write!(f, "{}", data)
PutWriteData(p) ==
    LET r == proc[p] IN
    /\ r.pc = "put_write_data"
    /\ disk' = [disk EXCEPT ![hashOf[r.key]].slots[r.n].data = File(r.data)]
    /\ Step(p, [r EXCEPT !.pc = "put_open_key"])
    /\ UNCHANGED <<hashOf, supplied, ops>>

\* What put_in_cache, having reached its last line, makes the operation
\* return: Ok(()) from put, the fetched response from get.
PutResult(r) == IF r.op = "get" THEN r.data ELSE "ok"

\* open(key) with create and truncate: the record exists and is empty.
\* Without the slot directory the open fails, the error is dropped and
\* put_in_cache returns Ok(()).
PutOpenKey(p) ==
    LET r == proc[p] IN
    /\ r.pc = "put_open_key"
    /\ IF r.n \in ChainOf(disk, hashOf[r.key])
       THEN /\ disk' = [disk EXCEPT
                          ![hashOf[r.key]].slots[r.n].key = File(<<>>)]
            /\ Step(p, [r EXCEPT !.pc = "put_write_key"])
       ELSE /\ disk' = disk
            /\ Complete(p, r, PutResult(r))
    /\ UNCHANGED <<hashOf, supplied, ops>>

\* write!(f, "{}", meta) with meta = url, then Ok(()): put returns, or get
\* returns the fetched response.
PutWriteKey(p) ==
    LET r == proc[p] IN
    /\ r.pc = "put_write_key"
    /\ disk' = [disk EXCEPT ![hashOf[r.key]].slots[r.n].key = File(r.key)]
    /\ Complete(p, [r EXCEPT !.wrote = TRUE], PutResult(r))
    /\ UNCHANGED <<hashOf, supplied, ops>>

\* The calling process is killed in the middle of an operation and started
\* again: the operation is abandoned, the tree stays as it is.  (prev is
\* forgotten: what follows no longer follows a completed operation.)
Crash(p) ==
    /\ proc[p].pc \notin {"idle"}
    /\ proc' = [proc EXCEPT ![p] = Idle]
    /\ last' = NoOp
    /\ prev' = NoOp
    /\ UNCHANGED <<hashOf, disk, supplied, ops, idxVars, pool>>

\* One filesystem or fetch call of caller p.
Advance(p) ==
    \/ GetListRoot(p) \/ GetListChain(p) \/ GetScan(p) \/ GetReadData(p)
    \/ Fetch(p)
    \/ PutListRoot(p) \/ PutMkdirBucket(p) \/ PutListChain(p)
    \/ PutListScan(p) \/ PutScan(p) \/ PutMkdirSlot(p)
    \/ PutOpenData(p) \/ PutWriteData(p) \/ PutOpenKey(p) \/ PutWriteKey(p)

\* A single caller, which may be killed and restarted.
Next ==
    \/ \E k \in Keys : ops < MaxOps /\ StartGet(1, k)
    \/ \E k \in Keys, d \in Payloads : ops < MaxOps /\ StartPut(1, k, d)
    \/ Advance(1)
    \/ Crash(1)

Spec == Init /\ [][Next]_vars

\* Several callers on the same folder, no mutual exclusion between them.
NextConc ==
    \/ \E p \in Procs, k \in ConcKeys : ops < MaxConcOps /\ StartGet(p, k)
    \/ \E p \in Procs, k \in ConcKeys, d \in Payloads :
           ops < MaxConcOps /\ StartPut(p, k, d)
    \/ \E p \in Procs : Advance(p)

\* The hash of a key that no caller passes plays no part.
InitConc == Init /\ \A k \in Keys \ ConcKeys : hashOf[k] = 1

SpecConc == InitConc /\ [][NextConc]_vars

\* ------------------------------------------- failing calls, foreign files
\* The calls of the operations return std::io::Result: any of them can fail
\* (permissions, a full disk, a folder removed).  The actions below are the
\* failing outcomes; at most MaxFaults calls fail within one operation.
CanFail(r) == r.faults < MaxFaults

Failed(r) == [r EXCEPT !.faults = r.faults + 1]

\* get_sub_folders(self.folder) is Err.  In get_from_cache the error is
\* mapped to a text and returned, and get, which only tests for Ok, goes on
\* to the fetch; in put_in_cache the ? operator returns it.
FailListRoot(p) ==
    LET r == proc[p] IN
    /\ CanFail(r)
    /\ \/ /\ r.pc = "get_list_root"
          /\ Step(p, [Failed(r) EXCEPT !.pc = "fetch", !.storageErr = TRUE])
       \/ /\ r.pc = "put_list_root"
          /\ Complete(p, Failed(r), "ioerr")
    /\ UNCHANGED <<hashOf, disk, supplied, ops>>

\* create_dir of the bucket or of the slot fails though the directory does
\* not exist; put_in_cache drops the result and goes on.
FailMkdir(p) ==
    LET r == proc[p]
        b == hashOf[r.key]
    IN
    /\ CanFail(r)
    /\ \/ /\ r.pc = "put_mkdir_bucket"
          /\ b \notin r.folders /\ ~disk[b].dir
          /\ Step(p, [Failed(r) EXCEPT !.pc = "put_list_chain",
                                       !.folders = {}])
       \/ /\ r.pc = "put_mkdir_slot"
          /\ r.n \notin ChainOf(disk, b)
          /\ Step(p, [Failed(r) EXCEPT !.pc = "put_open_data"])
    /\ UNCHANGED <<hashOf, disk, supplied, ops>>

\* An open fails.  Of the data record in get_from_cache: Err, and get goes
\* on to the fetch.  Of the data or key record in put_in_cache: the closure
\* with the write is not run, the error is dropped.
FailOpen(p) ==
    LET r == proc[p] IN
    /\ CanFail(r)
    /\ \/ /\ r.pc = "get_read_data"
          /\ Step(p, [Failed(r) EXCEPT !.pc = "fetch", !.n = NoSlot,
                                       !.storageErr = TRUE])
       \/ /\ r.pc = "put_open_data"
          /\ Step(p, [Failed(r) EXCEPT !.pc = "put_open_key"])
       \/ /\ r.pc = "put_open_key"
          /\ Complete(p, Failed(r), PutResult(r))
    /\ UNCHANGED <<hashOf, disk, supplied, ops>>

\* write! fails after the open has truncated the record; the result of the
\* closure is dropped.
FailWrite(p) ==
    LET r == proc[p] IN
    /\ CanFail(r)
    /\ \/ /\ r.pc = "put_write_data"
          /\ Step(p, [Failed(r) EXCEPT !.pc = "put_open_key"])
       \/ /\ r.pc = "put_write_key"
          /\ Complete(p, Failed(r), PutResult(r))
    /\ UNCHANGED <<hashOf, disk, supplied, ops>>

\* Another program leaves a directory in bucket b whose name is not a
\* number, while no operation is under way.
Litter(b) ==
    /\ \A p \in Procs : proc[p].pc = "idle"
    /\ disk[b].dir /\ ~disk[b].other
    /\ disk' = [disk EXCEPT ![b].other = TRUE]
    /\ UNCHANGED <<hashOf, proc, last, prev, supplied, ops, idxVars, pool>>

\* A single caller in an environment whose calls may fail and which may
\* leave foreign directories in the cache folder.
NextEnv ==
    \/ \E k \in Keys : ops < MaxEnvOps /\ StartGet(1, k)
    \/ \E k \in Keys, d \in Payloads : ops < MaxEnvOps /\ StartPut(1, k, d)
    \/ Advance(1)
    \/ FailListRoot(1) \/ FailMkdir(1) \/ FailOpen(1) \/ FailWrite(1)
    \/ \E b \in BucketIds : Litter(b)

SpecEnv == Init /\ [][NextEnv]_vars

\* ------------------------------------------------------------ CacheIndex
ENTRY_SPLITTER == <<"%", "%", "%">>

\* A timestamp text stands for a whole "%Y-%m-%d %H:%M:%S" text: "T1" and
\* "T2" are two times as format() writes them, "t1" is the time of "T1"
\* written without zero padding, which parse_from_str accepts as well.
ParseTime(text) ==
    CASE text = <<"T1">> -> "time1"
      [] text = <<"t1">> -> "time1"
      [] text = <<"T2">> -> "time2"
      [] OTHER -> "invalid"

\* time.format(TIME_FORMAT)
FormatTime(time) == IF time = "time1" THEN <<"T1">> ELSE <<"T2">>

\* The places where ENTRY_SPLITTER occurs in line.
SplitterAt(line) ==
    { i \in 1..(Len(line) - 2) : SubSeq(line, i, i + 2) = ENTRY_SPLITTER }

\* line.split_once(ENTRY_SPLITTER): the text before and after the first
\* occurrence, or <<>> for None.
SplitOnce(line) ==
    IF SplitterAt(line) = {} THEN <<>>
    ELSE LET i == CHOOSE j \in SplitterAt(line) :
                      \A m \in SplitterAt(line) : j <= m
         IN  <<SubSeq(line, 1, i - 1), SubSeq(line, i + 3, Len(line))>>

\* The loop body of CacheIndex::new: the map after reading one line.
InsertLine(map, line) ==
    LET parts == SplitOnce(line) IN
    IF parts = <<>> THEN map
    ELSE IF ParseTime(Trim(parts[2])) = "invalid" THEN map
    ELSE (Trim(parts[1]) :> ParseTime(Trim(parts[2]))) @@ map

\* CacheIndex::new: the entries read from the lines of the file, in order.
RECURSIVE LoadLines(_, _)
LoadLines(lines, map) ==
    IF lines = <<>> THEN map
    ELSE LoadLines(Tail(lines), InsertLine(map, Head(lines)))

\* The line update_file writes for an entry.
EntryLine(name, time) == name \o ENTRY_SPLITTER \o FormatTime(time)

\* update_file: "\n" and a line per entry, in the arbitrary order of the
\* HashMap; read back by lines(), an empty line comes first.
WrittenFiles(map) ==
    LET n == Cardinality(DOMAIN map)
        orders == { o \in [1..n -> DOMAIN map] :
                        \A i, j \in 1..n : o[i] = o[j] => i = j }
    IN  { <<<<>>>> \o [i \in 1..n |-> EntryLine(o[i], map[o[i]])] :
            o \in orders }

\* An absent file, and File(lines) for one that exists.
\* CacheIndex::new opens the file, creating it when absent, and reads it.
IndexNew ==
    /\ idxLast.op = "none"
    /\ idxFile' = IF idxFile = NoFile THEN File(<<>>) ELSE idxFile
    /\ entries' = LoadLines(Content(idxFile'), <<>>)
    /\ fresh' = fresh
    /\ idxLast' = [op |-> "new", synced |-> FALSE]
    /\ UNCHANGED <<hashOf, disk, proc, last, prev, supplied, ops, pool>>

\* update_file: File::create and one write of the whole map.
UpdateFile ==
    /\ idxLast.op # "none"
    /\ idxFile' \in { File(f) : f \in WrittenFiles(entries) }
    /\ idxLast' = [op |-> "update_file", synced |-> TRUE]
    /\ UNCHANGED <<entries, fresh>>
    /\ UNCHANGED <<hashOf, disk, proc, last, prev, supplied, ops, pool>>

\* clear_cache with the result of remove_file discarded: it reports success
\* whether or not there was a file to remove.
ClearCacheLenient ==
    /\ idxLast.op # "none"
    /\ idxFile' = NoFile
    /\ entries' = <<>>
    /\ idxLast' = [op |-> "clear_cache", synced |-> FALSE, ok |-> TRUE,
                   existed |-> (idxFile # NoFile),
                   had |-> (DOMAIN entries # {})]
    /\ fresh' = fresh
    /\ UNCHANGED <<hashOf, disk, proc, last, prev, supplied, ops, pool>>

\* clear_cache: remove_file, and entries.clear() when it succeeded.  existed
\* and had record the file and the map as they were before the call.
ClearCache ==
    /\ idxLast.op # "none"
    /\ idxFile' = NoFile
    /\ entries' = IF idxFile = NoFile THEN entries ELSE <<>>
    /\ idxLast' = [op |-> "clear_cache", synced |-> FALSE,
                   ok |-> (idxFile # NoFile),
                   existed |-> (idxFile # NoFile),
                   had |-> (DOMAIN entries # {})]
    /\ fresh' = fresh
    /\ UNCHANGED <<hashOf, disk, proc, last, prev, supplied, ops, pool>>

\* CacheIndex::new on the same file, into a fresh index object.
Reload ==
    /\ idxLast.op # "none"
    /\ idxFile' = IF idxFile = NoFile THEN File(<<>>) ELSE idxFile
    /\ fresh' = LoadLines(Content(idxFile'), <<>>)
    /\ idxLast' = [op |-> "reload", synced |-> idxLast.synced]
    /\ entries' = entries
    /\ UNCHANGED <<hashOf, disk, proc, last, prev, supplied, ops, pool>>

\* The texts an index line may start with, and the lines of the file as the
\* program first finds it: such a text alone, or followed by the separator
\* and a timestamp text, well formed or not.
RECURSIVE TextsUpTo(_)
TextsUpTo(n) ==
    IF n = 0 THEN { <<>> }
    ELSE TextsUpTo(n - 1) \cup
         { Append(t, c) : t \in TextsUpTo(n - 1), c \in {"a", "%", " "} }

TimeTexts == { <<"T1">>, <<"t1">>, <<"T2">>, <<" ", "T2">>, <<"%", "T1">> }

FoundLines ==
    TextsUpTo(MaxKeyText) \cup
    { k \o ENTRY_SPLITTER \o t : k \in TextsUpTo(MaxKeyText), t \in TimeTexts }

RECURSIVE FilesUpTo(_)
FilesUpTo(n) ==
    IF n = 0 THEN { <<>> }
    ELSE FilesUpTo(n - 1) \cup
         { Append(f, l) : f \in FilesUpTo(n - 1), l \in FoundLines }

InitIndex ==
    /\ idxFile \in {NoFile} \cup { File(f) : f \in FilesUpTo(MaxLines) }
    /\ entries = <<>>
    /\ fresh = <<>>
    /\ idxLast = [op |-> "none"]
    /\ pool = NewPool
    /\ hashOf = [k \in Keys |-> 1]
    /\ disk = EmptyDisk
    /\ proc = [p \in Procs |-> Idle]
    /\ last = NoOp
    /\ prev = NoOp
    /\ supplied = {}
    /\ ops = 0

NextIndex == IndexNew \/ UpdateFile \/ ClearCache \/ Reload

SpecIndex == InitIndex /\ [][NextIndex]_vars

\* The index on a file that is absent or was written by update_file, for
\* some map of at most MaxLines of the keys to times.
IndexMaps ==
    UNION { [S -> {"time1", "time2"}] :
              S \in { T \in SUBSET Keys : Cardinality(T) <= MaxLines } }

InitPurge ==
    /\ idxFile \in {NoFile} \cup
                   { File(f) : f \in UNION { WrittenFiles(m) : m \in IndexMaps } }
    /\ entries = <<>>
    /\ fresh = <<>>
    /\ idxLast = [op |-> "none"]
    /\ pool = NewPool
    /\ hashOf = [k \in Keys |-> 1]
    /\ disk = EmptyDisk
    /\ proc = [p \in Procs |-> Idle]
    /\ last = NoOp
    /\ prev = NoOp
    /\ supplied = {}
    /\ ops = 0

SpecPurge == InitPurge /\ [][NextIndex]_vars

\* ------------------------------------------------------------ ThreadPool
CacheUnused ==
    UNCHANGED <<hashOf, disk, proc, last, prev, supplied, ops, idxVars>>

\* execute: the job is boxed and sent into the channel (send does not block
\* and, the workers holding the receiver, does not fail).
execute ==
    /\ pool.sent < MaxJobs
    /\ pool' = [pool EXCEPT !.sent = @ + 1,
                            !.queue = Append(@, pool.sent + 1)]
    /\ CacheUnused

\* get_job: receiver.lock() returns the guard once the Mutex is free.
WorkerLock(w) ==
    /\ pool.pc[w] = "lock"
    /\ pool.lock = 0
    /\ pool' = [pool EXCEPT !.lock = w, !.pc[w] = "recv"]
    /\ CacheUnused

\* get_job: recv() on the guarded receiver blocks until the channel holds
\* a job and takes the oldest.
WorkerRecv(w) ==
    /\ pool.pc[w] = "recv"
    /\ pool.queue # <<>>
    /\ pool' = [pool EXCEPT !.queue = Tail(@), !.job[w] = Head(pool.queue),
                            !.taken[Head(pool.queue)] = @ + 1,
                            !.pc[w] = "return"]
    /\ CacheUnused

\* A worker that goes on to call the job with the guard still alive.
WorkerKeepLock(w) ==
    /\ pool.pc[w] = "return"
    /\ pool' = [pool EXCEPT !.pc[w] = "call"]
    /\ CacheUnused

\* get_job returns: the guard, a temporary of its one expression, is
\* dropped, which unlocks the Mutex.
WorkerUnlock(w) ==
    /\ pool.pc[w] = "return"
    /\ pool' = [pool EXCEPT !.lock = 0, !.pc[w] = "call"]
    /\ CacheUnused

\* The loop of the worker prints its line and calls job().
WorkerCall(w) ==
    /\ pool.pc[w] = "call"
    /\ pool' = [pool EXCEPT !.pc[w] = "run", !.runs[pool.job[w]] = @ + 1]
    /\ CacheUnused

\* A worker thread that ends when its job has returned.
JobReturnsExit(w) ==
    /\ pool.pc[w] = "run"
    /\ pool' = [pool EXCEPT !.pc[w] = "dead", !.job[w] = 0]
    /\ CacheUnused

\* job() returns and the loop of the worker starts over.
JobReturns(w) ==
    /\ pool.pc[w] = "run"
    /\ pool' = [pool EXCEPT !.pc[w] = "lock", !.job[w] = 0]
    /\ CacheUnused

\* job() panics (handle_connection unwraps its reads and writes): the panic
\* unwinds the worker thread, which ends; nothing catches it.
JobPanics(w) ==
    /\ pool.pc[w] = "run"
    /\ pool' = [pool EXCEPT !.pc[w] = "dead", !.job[w] = 0]
    /\ CacheUnused

\* The steps of worker w while its jobs return.
WorkerStep(w) ==
    \/ WorkerLock(w) \/ WorkerRecv(w) \/ WorkerUnlock(w)
    \/ WorkerCall(w) \/ JobReturns(w)

InitPool == Init /\ \A k \in Keys : hashOf[k] = 1

\* The pool with jobs that may panic.
NextPool ==
    \/ execute
    \/ \E w \in Workers : WorkerStep(w)
    \/ \E w \in Workers : JobPanics(w)

SpecPool == InitPool /\ [][NextPool]_vars

\* The pool with jobs that all return, its worker threads scheduled fairly:
\* a worker that can take a step and stays able to takes it.
NextPoolFair ==
    \/ execute
    \/ \E w \in Workers : WorkerStep(w)

SpecPoolFair ==
    /\ InitPool
    /\ [][NextPoolFair]_vars
    /\ \A w \in Workers : WF_vars(WorkerStep(w))

\* ================================================= properties, one caller
\* The slots of k's bucket whose key record holds exactly k.
SlotsHolding(k) ==
    { s \in ChainOf(disk, hashOf[k]) : disk[hashOf[k]].slots[s].key = File(k) }

\* No key with surrounding whitespace was ever handed to the store.
OnlyPlainKeys == \A c \in supplied : Trim(c[1]) = c[1]

GetAfterPut ==
    /\ last.op = "get" /\ last.prev.op = "put" /\ last.prev.key = last.key

\* C1 (round trip): when put(K, D) has completed and the next operation is
\* get(K), that get returns exactly D and does not invoke the fetch.
RoundTrip ==
    GetAfterPut => last.res = last.prev.data /\ last.fetches = 0

\* The same for runs that only ever store keys without surrounding
\* whitespace: there the round trip holds.
RoundTripPlain == OnlyPlainKeys => RoundTrip

RoundTripWitness == GetAfterPut /\ OnlyPlainKeys /\ last.res = last.prev.data

PutAfterPut ==
    /\ last.op = "put" /\ last.prev.op = "put" /\ last.prev.key = last.key

\* C2 (idempotent overwrite): after put(K, D1) then put(K, D2) exactly one
\* slot of K's bucket holds K, the second put wrote to the slot of the first,
\* and a get(K) that follows returns D2.
IdempotentOverwrite ==
    /\ PutAfterPut =>
         /\ Cardinality(SlotsHolding(last.key)) = 1
         /\ last.slot = last.prev.slot
    /\ (GetAfterPut /\ last.prev.over) => last.res = last.prev.data

IdempotentOverwritePlain == OnlyPlainKeys => IdempotentOverwrite

IdempotentOverwriteWitness ==
    GetAfterPut /\ last.prev.over /\ OnlyPlainKeys /\ last.res = last.prev.data

\* The operation that completed in the last step is a store that followed
\* a store of another key of the same bucket.
SecondCollidingStore == last.op # "none" /\ prev.before.op = "store"

\* A get that follows two such stores.
GetAfterCollidingStores ==
    /\ last.op = "get" /\ last.prev.op # "none"
    /\ last.prev.before.op = "store"
    /\ last.key \in {last.prev.key, last.prev.before.key}

\* C3 (collision independence): when two distinct keys of one bucket have
\* both been stored, they occupy distinct slots, and a get of either that
\* follows returns that key's own payload.
CollisionIndependence ==
    /\ SecondCollidingStore => prev.slot # prev.before.slot
    /\ GetAfterCollidingStores =>
         last.res = IF last.key = last.prev.key
                    THEN last.prev.data ELSE last.prev.before.data

CollisionIndependencePlain == OnlyPlainKeys => CollisionIndependence

CollisionIndependenceWitness ==
    /\ GetAfterCollidingStores /\ OnlyPlainKeys
    /\ last.key = last.prev.before.key /\ last.res = last.prev.before.data

\* The payload pl is stored for key k.
Stored(k, pl) ==
    \E s \in SlotsHolding(k) : disk[hashOf[k]].slots[s].data = File(pl)

GetAfterFirstGet ==
    /\ last.op = "get" /\ last.prev.op = "get" /\ last.prev.key = last.key
    /\ last.prev.wasEmpty /\ last.prev.res \in Payloads

\* C4 (miss then fetch once): the first get(K) on an empty cache invokes the
\* fetch exactly once and, when the fetch succeeds, stores and returns the
\* fetched payload; a second get(K) returns the same payload without a fetch.
MissThenFetchOnce ==
    /\ (last.op = "get" /\ last.wasEmpty) =>
         /\ last.fetches = 1
         /\ last.res # "err" =>
              last.res \in Payloads /\ Stored(last.key, last.res)
    /\ GetAfterFirstGet => last.res = last.prev.res /\ last.fetches = 0

MissThenFetchOncePlain == OnlyPlainKeys => MissThenFetchOnce

MissThenFetchOnceWitness ==
    GetAfterFirstGet /\ OnlyPlainKeys /\ last.fetches = 0

\* C8 (fetch failure): a get whose lookup missed and whose fetch failed
\* returns the error after a single fetch and has changed nothing on disk.
FetchFailure ==
    (last.op = "get" /\ last.res = "err") =>
        last.fetches = 1 /\ ~last.wrote

\* A failed get on a cache that already holds another entry.
FetchFailureWitness ==
    /\ last.op = "get" /\ last.res = "err" /\ last.fetches = 1
    /\ get_sub_folders(disk) # {}

GetWithCorruptSlot == last.op = "get" /\ last.corrupt /\ last.valid # {}

\* C9 (corrupt-slot resilience): a get(K) on a bucket that holds a slot
\* without a key record and a slot holding K with a payload hits that slot
\* and returns its payload, in whatever order the slots are scanned.
CorruptSlotResilience ==
    GetWithCorruptSlot =>
        /\ last.slot \in last.valid
        /\ last.res = Content(disk[hashOf[last.key]].slots[last.slot].data)
        /\ last.fetches = 0

CorruptSlotResiliencePlain == OnlyPlainKeys => CorruptSlotResilience

CorruptSlotResilienceWitness ==
    GetWithCorruptSlot /\ OnlyPlainKeys /\ last.res \in Payloads

\* ============================================ properties, several callers
AllIdle == \A p \in Procs : proc[p].pc = "idle"

\* Two operations were started on the empty store, both puts of k, and the
\* second of them has just returned.
TwoPutsOf(k) ==
    /\ ops = 2 /\ AllIdle
    /\ last.op = "put" /\ last.key = k
    /\ last.prev.op = "put" /\ last.prev.key = k

\* C5 (concurrent-put safety): when two callers have executed put of one
\* key that was not in the store, in any interleaving of their steps, and
\* both have returned, exactly one slot holds that key.
ConcurrentPutSafety ==
    \A k \in ConcKeys : TwoPutsOf(k) => Cardinality(SlotsHolding(k)) = 1

\* C6: a get(K) that returns a payload returns, whole, a payload that was
\* handed to some put(K, .) or answered by a fetch of K.
NoCorruptPayload ==
    (last.op = "get" /\ last.res \notin {"err", "panic"}) =>
        <<last.key, last.res>> \in supplied

\* Slot s of bucket b has one of its two records and not the other.
HalfWritten(b, s) ==
    (disk[b].slots[s].key = NoFile) # (disk[b].slots[s].data = NoFile)

\* Caller p is in the loop of check_subdirs_for_url.
Scanning(p) == proc[p].pc \in {"get_scan", "put_scan"}

\* C7 (atomic publish): a caller scanning a bucket never has before it a
\* slot directory with a payload record and no key record, or with a key
\* record and no payload record.
AtomicPublish ==
    \A p \in Procs :
        Scanning(p) =>
            \A s \in proc[p].scan : ~HalfWritten(hashOf[proc[p].key], s)

\* ================================================= properties, the index
\* An index was persisted and then loaded anew from the file.
ReloadAfterPersist == idxLast.op = "reload" /\ idxLast.synced

\* C10 (index round trip): persisting an index and loading the file into a
\* fresh index yields the same keys, each with the same timestamp.
IndexRoundTrip == ReloadAfterPersist => fresh = entries

\* A key that ends in "%" runs into the separator written after it.
EndsInPercent(k) == k # <<>> /\ k[Len(k)] = "%"

\* The same for an index none of whose keys ends in "%": there the round
\* trip holds.
IndexRoundTripPlain ==
    (\A k \in DOMAIN entries : ~EndsInPercent(k)) => IndexRoundTrip

IndexRoundTripWitness ==
    ReloadAfterPersist /\ Cardinality(DOMAIN entries) = 2 /\ fresh = entries

\* C11: clear_cache on an index whose backing file exists succeeds, removes the
\* file and leaves the map empty; on an index whose backing file is missing it
\* returns an error.
PurgeEmptiesIndex ==
    idxLast.op = "clear_cache" =>
        IF idxLast.existed
        THEN idxLast.ok /\ idxFile = NoFile /\ entries = <<>>
        ELSE ~idxLast.ok

\* A non-empty index has been purged successfully.
PurgeEmptiesIndexWitness ==
    idxLast.op = "clear_cache" /\ idxLast.ok /\ idxLast.had /\ entries = <<>>

\* ================================== properties of the chain of a bucket
\* C12 (invariant I1): whatever puts and gets one caller has run, on keys with
\* or without surrounding whitespace, no bucket has two slots whose key
\* records hold the same cache key.
NoDuplicateKeys == \A k \in Keys : Cardinality(SlotsHolding(k)) <= 1

\* The same for runs that only ever store keys without surrounding
\* whitespace: there no key is held twice.
NoDuplicateKeysPlain == OnlyPlainKeys => NoDuplicateKeys

\* C13: a get(K) that finds the directory of K's bucket but no slot in it
\* whose key record equals K is a miss: it does not abort, it invokes the
\* fetch once and, when the fetch succeeds, stores the payload.
NoMatchIsMiss ==
    (last.op = "get" /\ last.noMatch) =>
        /\ last.res # "panic"
        /\ last.fetches = 1
        /\ last.res \in Payloads => Stored(last.key, last.res)

\* C17 (slot selection): a put of K writes to the slot that held K at the
\* call when there is one, otherwise to the maximum slot number of the bucket
\* plus one, or to 0 in a bucket without slots; it never writes to a slot
\* that held another key.
SlotSelection ==
    (last.op = "put" /\ last.res = "ok") =>
        /\ last.held # {} => last.slot \in last.held
        /\ last.held = {} =>
              last.slot = IF last.chain0 = {} THEN 0 ELSE Max(last.chain0) + 1
        /\ last.slot \notin last.taken

\* The same for runs that only ever store keys without surrounding
\* whitespace: there the slot is chosen as stated.
SlotSelectionPlain == OnlyPlainKeys => SlotSelection

\* The directories of tree t are all in the tree on disk.
Within(t) ==
    \A b \in BucketIds :
        /\ t[b].dir => disk[b].dir
        /\ t[b].chain \subseteq ChainOf(disk, b)

\* C18 (no eviction): every key whose lookup hit when a get or put was
\* called still hits when that operation has returned, whatever key it was
\* on; and no step of an operation removes a bucket or a slot.
NoEviction ==
    /\ last.op # "none" =>
          /\ last.present \subseteq PresentKeys(disk, hashOf)
          /\ Within(last.tree0)
    /\ \A p \in Procs : proc[p].pc # "idle" => Within(proc[p].tree0)

\* A put of a new key has returned in a bucket that held another key, which
\* is still present.
NoEvictionWitness ==
    /\ last.op = "put" /\ last.res = "ok" /\ last.key \notin last.present
    /\ \E k \in last.present :
           /\ hashOf[k] = hashOf[last.key]
           /\ Present(disk, hashOf, k) /\ Present(disk, hashOf, last.key)

\* ===================================== properties, failing environment
\* C14: a get whose lookup fails with a storage error (the root cannot be
\* listed, or the data record of the matched slot cannot be opened) returns
\* that error: it does not invoke the fetch and writes nothing.
StorageErrorIsNotMiss ==
    (last.op = "get" /\ last.storageErr) =>
        last.res = "ioerr" /\ last.fetches = 0 /\ ~last.wrote

\* C15: a put in which the creation of the bucket or slot directory, or the
\* creation or writing of the data or key record, failed returns an error,
\* and a put that returns success has written both records.
PutReportsFailure ==
    last.op = "put" =>
        /\ last.faults > 0 => last.res = "ioerr"
        /\ last.res = "ok" => Stored(last.key, last.data)

\* C16: a get or put on a bucket that holds a directory whose name is not a
\* number completes without aborting.
ForeignEntrySkipped ==
    (last.op \in {"get", "put"} /\ last.foreign) => last.res # "panic"

\* ============================================ properties, the thread pool
\* C19 (at-most-once delivery): every job given to execute is received by
\* at most one worker and called at most once; at most one worker at a time
\* is inside lock()..recv(), and no worker holds the lock of the receiver
\* while its job runs, so that as many jobs as there are workers can run at
\* once.
AtMostOnceDelivery ==
    /\ \A j \in Jobs : pool.taken[j] <= 1 /\ pool.runs[j] <= 1
    /\ \A w \in Workers : pool.pc[w] \in {"recv", "return"} <=> pool.lock = w
    /\ \A w, v \in Workers :
          (w # v /\ pool.job[w] # 0) => pool.job[w] # pool.job[v]

\* Every worker is running a job of its own at the same time.
AtMostOnceDeliveryWitness ==
    /\ \A w \in Workers : pool.pc[w] = "run" /\ pool.runs[pool.job[w]] = 1
    /\ \A w, v \in Workers : w # v => pool.job[w] # pool.job[v]

\* C20 (liveness): with at least one worker, fairly scheduled workers and
\* jobs that return, every job given to execute is eventually called.
EveryJobRuns ==
    \A j \in Jobs : (pool.sent >= j) ~> (pool.runs[j] >= 1)

\* More jobs than workers were given to execute and all of them have run.
EveryJobRunsWitness ==
    /\ MaxJobs > NumWorkers
    /\ pool.sent = MaxJobs
    /\ \A j \in Jobs : pool.runs[j] = 1

====
